---- MODULE Spec2Model ----
(***************************************************************************)
(* Model of the web variant of the podcast video generator (src/app.py):   *)
(* the process-wide task registry `tasks`, the upload handler, the runner  *)
(* thread (process_video_task / create_video_with_waveform) driving the    *)
(* ffmpeg subprocess, and the read-only status / download handlers.        *)
(*                                                                         *)
(* Every statement of the runner that writes one field of a task record is *)
(* one action, so that the states between two field writes are states of   *)
(* the model, as they are for a concurrent request handler.  Statements    *)
(* that touch only a thread's locals are part of the action of the next    *)
(* statement that reads or writes shared state.  get_status and            *)
(* download_video read the registry and write nothing: each is one action, *)
(* and resp holds its response in the state the call leads to.             *)
(***************************************************************************)
EXTENDS Integers, Sequences, FiniteSets, TLC

\* ------------------------------------------------------------------ bounds
\* number of upload requests served in one behaviour
MaxUploads == 2
\* size of the id space uuid4()[:8] draws from (16^8 in the program)
NumIds == 2
\* capacity of the OS pipe behind stderr=subprocess.PIPE, in chunks
StderrCap == 1

Requests == 1..MaxUploads
TaskIds == 1..NumIds

\* ------------------------------------------------------------- constants
None == "None"
NoFile == "NoFile"

ALLOWED_AUDIO == {"mp3", "wav", "m4a", "aac", "ogg", "flac"}
ALLOWED_IMAGE == {"jpg", "jpeg", "png", "webp"}

\* microseconds per second: time_sec = time_ms / 1000000
MicrosPerSec == 1000000
\* progress written before the subprocess is started
ProgressStarted == 10
\* progress written just before the subprocess is started
ProgressEncoding == 20
\* lower end of the band: 20 + int(...)
BandFloor == 20
\* width of the band: int((time_sec / duration) * 70)
BandWidth == 70
\* upper end of the band: min(..., 90)
BandCeil == 90
\* progress written on exit code 0
ProgressDone == 100

\* ------------------------------------------------------- input alphabets
\* uploaded file names (request.files[...].filename)
AudioNames == {"", "song", "notes.txt", "song.mp3", "talk.MP3"}
CoverNames == {"", "cover.jpg", "cover.gif"}

\* durations ffprobe may report, in microseconds; 0 is what
\* get_audio_duration returns when the output does not parse as a float
Durations == {0, 3 * MicrosPerSec}

\* integer values an out_time_ms= line may carry
TimeVals == {-1 * MicrosPerSec, 1 * MicrosPerSec, 5 * MicrosPerSec}

\* lines of the -progress stream: a well-formed out_time_ms line, a line
\* with another key, and an out_time_ms line whose value is not an integer
\* (kind "time": "out_time_ms=<val>", kind "other": "frame=1",
\* kind "malformed": "out_time_ms=N/A")
Lines == [kind : {"time"}, val : TimeVals]
           \cup {[kind |-> "other", val |-> 0],
                 [kind |-> "malformed", val |-> 0]}

VARIABLES
    tasks,      \* the registry: task id -> record, or NoTask
    files,      \* OUTPUT_FOLDER: ids t whose "<t>_video.mp4" exists
    upc,        \* position of each upload_files call
    utid,       \* task_id local of each upload_files call
    uresp,      \* response of each upload_files call
    rpc,        \* position of the runner thread each call started
    duration,   \* runner local: duration (0 outside the read loop)
    exc,        \* runner local: message of the exception being handled
    proc,       \* runner local: the ffmpeg subprocess, while the runner
                \* holds it
    resp,       \* the response the step into this state returned, when
                \* that step was a get_status / download_video call
    line        \* the line the step into this state read from the
                \* progress stream, when that step was an iteration of the
                \* read loop, and the runner that read it

vars == <<tasks, files, upc, utid, uresp, rpc, duration, exc, proc, resp,
          line>>

NoTask == [status |-> "absent", progress |-> 0,
           output_file |-> None, error |-> None]

NewTask == [status |-> "queued", progress |-> 0,
            output_file |-> None, error |-> None]

\* an upload_files call that has not returned yet
NoResponse == [code |-> 0, task_id |-> 0, error |-> None]

\* the last step was no get_status / download_video call
NoApiResponse == [kind |-> "none", tid |-> 0, code |-> 0, error |-> None,
                  body |-> NoTask, file |-> None]

\* the last step was no iteration of the read loop
NoLine == [r |-> 0, kind |-> "none", val |-> 0]

NoProc == [state |-> "none", stderr |-> 0, rc |-> 0]

\* ---------------------------------------------------------- pure helpers
\* filename.rsplit('.', 1)[1] for the names of the alphabets; NoExt when the
\* name holds no '.'
RSplitExt(filename) ==
    CASE filename = "notes.txt" -> "txt"
      [] filename = "song.mp3"  -> "mp3"
      [] filename = "talk.MP3"  -> "MP3"
      [] filename = "cover.jpg" -> "jpg"
      [] filename = "cover.gif" -> "gif"
      [] OTHER -> "NoExt"

HasDot(filename) == RSplitExt(filename) # "NoExt"

Lower(ext) == IF ext = "MP3" THEN "mp3" ELSE ext

allowed_audio(filename) ==
    HasDot(filename) /\ Lower(RSplitExt(filename)) \in ALLOWED_AUDIO

allowed_image(filename) ==
    HasDot(filename) /\ Lower(RSplitExt(filename)) \in ALLOWED_IMAGE

\* output_path.name
OutputName(t) == ToString(t) \o "_video.mp4"

\* int(x / y) of Python for y > 0: truncation toward zero
TruncDiv(x, y) == IF x >= 0 THEN x \div y ELSE -((-x) \div y)

Min(a, b) == IF a <= b THEN a ELSE b

\* min(20 + int((time_sec / duration) * 70), 90)
BandProgress(time_ms, dur) ==
    Min(BandFloor + TruncDiv(time_ms * BandWidth, dur), BandCeil)

\* process.stderr.read(): what the subprocess wrote to the pipe
StderrText(n) == IF n = 0 THEN "" ELSE "ffmpeg: error"

\* tasks[task_id][field] = value
SetField(t, field, value) ==
    tasks' = [tasks EXCEPT ![t] = [@ EXCEPT ![field] = value]]

\* ------------------------------------------------------------------ Init
Init ==
    /\ tasks = [t \in TaskIds |-> NoTask]
    /\ files = {}
    /\ upc = [r \in Requests |-> "idle"]
    /\ utid = [r \in Requests |-> 0]
    /\ uresp = [r \in Requests |-> NoResponse]
    /\ rpc = [r \in Requests |-> "none"]
    /\ duration = [r \in Requests |-> 0]
    /\ exc = [r \in Requests |-> None]
    /\ proc = [r \in Requests |-> NoProc]
    /\ resp = NoApiResponse
    /\ line = NoLine

\* a step that is no get_status / download_video call returns no response
\* of theirs
NoApiCall == resp' = NoApiResponse

\* a step that is no iteration of the read loop reads no line
NoLineRead == line' = NoLine

\* ---------------------------------------------------------- upload_files
\* lines 158-189: the checks that end in a 400 response; "ok" when the call
\* goes on to create the task
UploadError(audio, cover, default_cover) ==
    IF audio = NoFile THEN "please upload an audio file"
    ELSE IF audio = "" THEN "please choose an audio file"
    ELSE IF ~allowed_audio(audio) THEN "unsupported audio format"
    ELSE IF cover # NoFile /\ cover # "" /\ allowed_image(cover) THEN "ok"
    ELSE IF default_cover THEN "ok"
    ELSE "please upload a cover image"

\* upload_validate with the task record written right after the task id
\* is drawn, before the cover is checked
upload_validate_create_first(r) ==
    /\ upc[r] = "idle"
    /\ \E audio \in {NoFile} \cup AudioNames,
          cover \in {NoFile} \cup CoverNames,
          default_cover \in BOOLEAN,
          id \in TaskIds :
          LET err == UploadError(audio, cover, default_cover) IN
          IF err = "ok"
          THEN /\ utid' = [utid EXCEPT ![r] = id]
               /\ upc' = [upc EXCEPT ![r] = "l196"]
               /\ UNCHANGED <<uresp, tasks>>
          ELSE /\ uresp' = [uresp EXCEPT ![r] =
                               [code |-> 400, task_id |-> 0, error |-> err]]
               /\ upc' = [upc EXCEPT ![r] = "done"]
               /\ tasks' = IF err = "please upload a cover image"
                            THEN [tasks EXCEPT ![id] = NewTask]
                            ELSE tasks
               /\ UNCHANGED utid
    /\ UNCHANGED <<files, rpc, duration, exc, proc>>
    /\ NoApiCall
    /\ NoLineRead

\* lines 158-193: validation, the draw of the task id, saving the uploads.
\* These lines touch only the call's locals and the upload folder, so they
\* are one step; utid keeps the id drawn at line 171 for a call that goes
\* on to line 196.
upload_validate(r) ==
    /\ upc[r] = "idle"
    /\ \E audio \in {NoFile} \cup AudioNames,
          cover \in {NoFile} \cup CoverNames,
          default_cover \in BOOLEAN,
          id \in TaskIds :
          LET err == UploadError(audio, cover, default_cover) IN
          IF err = "ok"
          THEN /\ utid' = [utid EXCEPT ![r] = id]
               /\ upc' = [upc EXCEPT ![r] = "l196"]
               /\ UNCHANGED uresp
          ELSE /\ uresp' = [uresp EXCEPT ![r] =
                               [code |-> 400, task_id |-> 0, error |-> err]]
               /\ upc' = [upc EXCEPT ![r] = "done"]
               /\ UNCHANGED utid
    /\ UNCHANGED <<tasks, files, rpc, duration, exc, proc>>
    /\ NoApiCall
    /\ NoLineRead

\* upload_create that goes on to thread.start() without having written
\* the record
upload_create_no_record(r) ==
    /\ upc[r] = "l196"
    /\ upc' = [upc EXCEPT ![r] = "l208"]
    /\ UNCHANGED <<tasks, files, utid, uresp, rpc, duration, exc, proc>>
    /\ NoApiCall
    /\ NoLineRead

\* lines 196-201: tasks[task_id] = {...}
upload_create(r) ==
    /\ upc[r] = "l196"
    /\ tasks' = [tasks EXCEPT ![utid[r]] = NewTask]
    /\ upc' = [upc EXCEPT ![r] = "l208"]
    /\ UNCHANGED <<files, utid, uresp, rpc, duration, exc, proc>>
    /\ NoApiCall
    /\ NoLineRead

\* lines 204-208: thread.start()
upload_start(r) ==
    /\ upc[r] = "l208"
    /\ rpc' = [rpc EXCEPT ![r] = "l66"]
    /\ upc' = [upc EXCEPT ![r] = "l210"]
    /\ UNCHANGED <<tasks, files, utid, uresp, duration, exc, proc>>
    /\ NoApiCall
    /\ NoLineRead

\* upload_respond after a thread.join(): the call returns once the runner
\* has ended
upload_respond_after_join(r) ==
    /\ upc[r] = "l210"
    /\ rpc[r] = "done"
    /\ uresp' = [uresp EXCEPT ![r] =
                    [code |-> 200, task_id |-> utid[r], error |-> None]]
    /\ upc' = [upc EXCEPT ![r] = "done"]
    /\ UNCHANGED <<tasks, files, utid, rpc, duration, exc, proc>>
    /\ NoApiCall
    /\ NoLineRead

\* lines 210-213: return jsonify({'task_id': task_id, ...})
upload_respond(r) ==
    /\ upc[r] = "l210"
    /\ uresp' = [uresp EXCEPT ![r] =
                    [code |-> 200, task_id |-> utid[r], error |-> None]]
    /\ upc' = [upc EXCEPT ![r] = "done"]
    /\ UNCHANGED <<tasks, files, utid, rpc, duration, exc, proc>>
    /\ NoApiCall
    /\ NoLineRead

\* ------------------------------------------- create_video_with_waveform
\* line 66: tasks[task_id]['status'] = 'processing'
runner_l66(r) ==
    /\ rpc[r] = "l66"
    /\ SetField(utid[r], "status", "processing")
    /\ rpc' = [rpc EXCEPT ![r] = "l67"]
    /\ UNCHANGED <<files, upc, utid, uresp, duration, exc, proc>>
    /\ NoApiCall
    /\ NoLineRead

\* line 67: tasks[task_id]['progress'] = 10
runner_l67(r) ==
    /\ rpc[r] = "l67"
    /\ SetField(utid[r], "progress", ProgressStarted)
    /\ rpc' = [rpc EXCEPT ![r] = "l104"]
    /\ UNCHANGED <<files, upc, utid, uresp, duration, exc, proc>>
    /\ NoApiCall
    /\ NoLineRead

\* line 104: tasks[task_id]['progress'] = 20
runner_l104(r) ==
    /\ rpc[r] = "l104"
    /\ SetField(utid[r], "progress", ProgressEncoding)
    /\ rpc' = [rpc EXCEPT ![r] = "l106"]
    /\ UNCHANGED <<files, upc, utid, uresp, duration, exc, proc>>
    /\ NoApiCall
    /\ NoLineRead

\* lines 106-114: subprocess.Popen(cmd, stdout=PIPE, stderr=PIPE), then
\* get_audio_duration (lines 47-59: float(stdout), or 0 when ffprobe's
\* output does not parse). Either the subprocess starts and the duration
\* is known, or Popen raises (no ffmpeg executable) and control passes to
\* the except clause of process_video_task.
runner_popen(r) ==
    /\ rpc[r] = "l106"
    /\ \/ /\ proc' = [proc EXCEPT ![r].state = "running"]
          /\ \E d \in Durations : duration' = [duration EXCEPT ![r] = d]
          /\ rpc' = [rpc EXCEPT ![r] = "l117"]
          /\ UNCHANGED exc
       \/ /\ exc' = [exc EXCEPT ![r] = "No such file or directory: ffmpeg"]
          /\ rpc' = [rpc EXCEPT ![r] = "l146"]
          /\ UNCHANGED <<proc, duration>>
    /\ UNCHANGED <<tasks, files, upc, utid, uresp>>
    /\ NoApiCall
    /\ NoLineRead

\* HandleLine with a value that does not parse taken for 0 instead of
\* being skipped
HandleLine_malformed_as_zero(task, l, dur) ==
    IF l.kind \in {"time", "malformed"} /\ dur > 0
    THEN [task EXCEPT !.progress = BandProgress(l.val, dur)]
    ELSE task

\* lines 118-126, the body of the read loop for one line: the record after
\* the line has been handled
HandleLine(task, l, dur) ==
    IF l.kind = "time" /\ dur > 0
    THEN [task EXCEPT !.progress = BandProgress(l.val, dur)]
    ELSE task

\* line 117, one iteration: the subprocess has written a line to its
\* stdout pipe and the loop reads and handles it
runner_read_line(r) ==
    /\ rpc[r] = "l117"
    /\ proc[r].state = "running"
    /\ \E l \in Lines :
          /\ tasks' = [tasks EXCEPT ![utid[r]] = HandleLine(@, l, duration[r])]
          /\ line' = [r |-> r, kind |-> l.kind, val |-> l.val]
    /\ UNCHANGED <<files, upc, utid, uresp, rpc, duration, exc, proc>>
    /\ NoApiCall

\* the subprocess writes a chunk of its log to stderr; nothing reads that
\* pipe before line 137, so a write to a full pipe blocks the subprocess
proc_write_stderr(r) ==
    /\ proc[r].state = "running"
    /\ IF proc[r].stderr < StderrCap
       THEN proc' = [proc EXCEPT ![r].stderr = @ + 1]
       ELSE proc' = [proc EXCEPT ![r].state = "blocked"]
    /\ UNCHANGED <<tasks, files, upc, utid, uresp, rpc, duration, exc>>
    /\ NoApiCall
    /\ NoLineRead

\* lines 117, 128-130: the subprocess exits with a return code (on 0 it
\* has written the output file), the loop ends on EOF of its stdout,
\* process.wait() returns and the branch on process.returncode is taken
runner_read_eof(r) ==
    /\ rpc[r] = "l117"
    /\ proc[r].state = "running"
    /\ \E code \in {0, 1} :
          /\ proc' = [proc EXCEPT ![r].state = "exited", ![r].rc = code]
          /\ files' = IF code = 0 THEN files \cup {OutputName(utid[r])}
                                  ELSE files
          /\ rpc' = [rpc EXCEPT ![r] = IF code = 0 THEN "l131" ELSE "l136"]
    /\ duration' = [duration EXCEPT ![r] = 0]
    /\ UNCHANGED <<tasks, upc, utid, uresp, exc>>
    /\ NoApiCall
    /\ NoLineRead

\* line 131: tasks[task_id]['status'] = 'completed'
runner_l131(r) ==
    /\ rpc[r] = "l131"
    /\ SetField(utid[r], "status", "completed")
    /\ rpc' = [rpc EXCEPT ![r] = "l132"]
    /\ UNCHANGED <<files, upc, utid, uresp, duration, exc, proc>>
    /\ NoApiCall
    /\ NoLineRead

\* line 132: tasks[task_id]['progress'] = 100
runner_l132(r) ==
    /\ rpc[r] = "l132"
    /\ SetField(utid[r], "progress", ProgressDone)
    /\ rpc' = [rpc EXCEPT ![r] = "l133"]
    /\ UNCHANGED <<files, upc, utid, uresp, duration, exc, proc>>
    /\ NoApiCall
    /\ NoLineRead

\* lines 133-134: tasks[task_id]['output_file'] = output_path.name
runner_l133(r) ==
    /\ rpc[r] = "l133"
    /\ SetField(utid[r], "output_file", OutputName(utid[r]))
    /\ rpc' = [rpc EXCEPT ![r] = "done"]
    /\ proc' = [proc EXCEPT ![r] = NoProc]
    /\ UNCHANGED <<files, upc, utid, uresp, duration, exc>>
    /\ NoApiCall
    /\ NoLineRead

\* line 136: tasks[task_id]['status'] = 'failed'
runner_l136(r) ==
    /\ rpc[r] = "l136"
    /\ SetField(utid[r], "status", "failed")
    /\ rpc' = [rpc EXCEPT ![r] = "l137"]
    /\ UNCHANGED <<files, upc, utid, uresp, duration, exc, proc>>
    /\ NoApiCall
    /\ NoLineRead

\* lines 137-138: tasks[task_id]['error'] = process.stderr.read()
runner_l137(r) ==
    /\ rpc[r] = "l137"
    /\ SetField(utid[r], "error", StderrText(proc[r].stderr))
    /\ rpc' = [rpc EXCEPT ![r] = "done"]
    /\ proc' = [proc EXCEPT ![r] = NoProc]
    /\ UNCHANGED <<files, upc, utid, uresp, duration, exc>>
    /\ NoApiCall
    /\ NoLineRead

\* ---------------------------------------------------- process_video_task
\* line 146: tasks[task_id]['status'] = 'failed'
runner_l146(r) ==
    /\ rpc[r] = "l146"
    /\ SetField(utid[r], "status", "failed")
    /\ rpc' = [rpc EXCEPT ![r] = "l147"]
    /\ UNCHANGED <<files, upc, utid, uresp, duration, exc, proc>>
    /\ NoApiCall
    /\ NoLineRead

\* line 147: tasks[task_id]['error'] = str(e)
runner_l147(r) ==
    /\ rpc[r] = "l147"
    /\ SetField(utid[r], "error", exc[r])
    /\ rpc' = [rpc EXCEPT ![r] = "done"]
    /\ exc' = [exc EXCEPT ![r] = None]
    /\ UNCHANGED <<files, upc, utid, uresp, duration, proc>>
    /\ NoApiCall
    /\ NoLineRead

\* ------------------------------------------------ get_status, download
\* StatusResponse with a snapshot that leaves the error out
StatusResponse_no_error(t) ==
    IF tasks[t].status = "absent"
    THEN [kind |-> "status", tid |-> t, code |-> 404,
          error |-> "task does not exist", body |-> NoTask, file |-> None]
    ELSE [kind |-> "status", tid |-> t, code |-> 200, error |-> None,
          body |-> [tasks[t] EXCEPT !.error = None], file |-> None]

\* lines 219-222
StatusResponse(t) ==
    IF tasks[t].status = "absent"
    THEN [kind |-> "status", tid |-> t, code |-> 404,
          error |-> "task does not exist", body |-> NoTask, file |-> None]
    ELSE [kind |-> "status", tid |-> t, code |-> 200,
          error |-> None, body |-> tasks[t], file |-> None]

get_status(t) ==
    /\ resp' = StatusResponse(t)
    /\ UNCHANGED <<tasks, files, upc, utid, uresp, rpc, duration, exc, proc>>
    /\ NoLineRead

\* DownloadReady tested against 'failed' only
DownloadReady_not_failed(t) == tasks[t].status # "failed"

\* line 232, negated: task['status'] != 'completed' returns the 400
DownloadReady(t) == tasks[t].status = "completed"

\* ArtifactExists that takes any set output_file for an existing file
ArtifactExists_unchecked(t) == TRUE

\* lines 235-236: (OUTPUT_FOLDER / task['output_file']).exists()
ArtifactExists(t) == tasks[t].output_file \in files

\* lines 228-243; OUTPUT_FOLDER / None raises TypeError, which the
\* framework turns into a 500 response
DownloadResponse(t) ==
    IF tasks[t].status = "absent"
    THEN [kind |-> "download", tid |-> t, code |-> 404,
          error |-> "task does not exist", body |-> NoTask, file |-> None]
    ELSE IF ~DownloadReady(t)
    THEN [kind |-> "download", tid |-> t, code |-> 400,
          error |-> "video not yet completed", body |-> NoTask, file |-> None]
    ELSE IF tasks[t].output_file = None
    THEN [kind |-> "download", tid |-> t, code |-> 500,
          error |-> "TypeError", body |-> NoTask, file |-> None]
    ELSE IF ~ArtifactExists(t)
    THEN [kind |-> "download", tid |-> t, code |-> 404,
          error |-> "file does not exist", body |-> NoTask, file |-> None]
    ELSE [kind |-> "download", tid |-> t, code |-> 200,
          error |-> None, body |-> NoTask, file |-> tasks[t].output_file]

download_video(t) ==
    /\ resp' = DownloadResponse(t)
    /\ UNCHANGED <<tasks, files, upc, utid, uresp, rpc, duration, exc, proc>>
    /\ NoLineRead

\* line 236, output_file.exists(): the file of a finished task is in the
\* output folder until something outside the program removes it
artifact_removed(t) ==
    /\ OutputName(t) \in files
    /\ files' = files \ {OutputName(t)}
    /\ UNCHANGED <<tasks, upc, utid, uresp, rpc, duration, exc, proc>>
    /\ NoApiCall
    /\ NoLineRead

\* ------------------------------------------------------- specifications
Upload(r) ==
    \/ upload_validate(r)
    \/ upload_create(r)
    \/ upload_start(r)
    \/ upload_respond(r)

Runner(r) ==
    \/ runner_l66(r)
    \/ runner_l67(r)
    \/ runner_l104(r)
    \/ runner_popen(r)
    \/ runner_read_line(r)
    \/ runner_read_eof(r)
    \/ runner_l131(r)
    \/ runner_l132(r)
    \/ runner_l133(r)
    \/ runner_l136(r)
    \/ runner_l137(r)
    \/ runner_l146(r)
    \/ runner_l147(r)

Next ==
    \/ \E r \in Requests : upload_validate(r)
    \/ \E r \in Requests : upload_create(r)
    \/ \E r \in Requests : upload_start(r)
    \/ \E r \in Requests : upload_respond(r)
    \/ \E r \in Requests : runner_l66(r)
    \/ \E r \in Requests : runner_l67(r)
    \/ \E r \in Requests : runner_l104(r)
    \/ \E r \in Requests : runner_popen(r)
    \/ \E r \in Requests : runner_read_line(r)
    \/ \E r \in Requests : runner_read_eof(r)
    \/ \E r \in Requests : runner_l131(r)
    \/ \E r \in Requests : runner_l132(r)
    \/ \E r \in Requests : runner_l133(r)
    \/ \E r \in Requests : runner_l136(r)
    \/ \E r \in Requests : runner_l137(r)
    \/ \E r \in Requests : runner_l146(r)
    \/ \E r \in Requests : runner_l147(r)
    \/ \E r \in Requests : proc_write_stderr(r)
    \/ \E t \in TaskIds : artifact_removed(t)
    \/ \E t \in TaskIds : get_status(t)
    \/ \E t \in TaskIds : download_video(t)

Spec == Init /\ [][Next]_vars

\* Every started handler and thread keeps being scheduled, and a
\* subprocess that is able to run does exit after finitely many lines.
FairSpec ==
    /\ Spec
    /\ \A r \in Requests :
          /\ WF_vars(Upload(r))
          /\ WF_vars(Runner(r))
          /\ WF_vars(runner_read_eof(r))

\* ------------------------------------------------------------------ C1
Terminal == {"completed", "failed"}

\* the record of the task an upload_files call created (NoTask before it
\* has drawn its task id)
TaskOf(r) == IF utid[r] \in TaskIds THEN tasks[utid[r]] ELSE NoTask

\* C1: every accepted submission (upload_files returned a task_id) is
\* followed by a state in which the task's status is 'completed' or
\* 'failed'.
C1_EventuallyTerminal ==
    \A r \in Requests :
        (uresp[r].code = 200) ~> (TaskOf(r).status \in Terminal)

\* ------------------------------------------------------------------ C2
\* C2: in every state, a task whose status is 'completed' has its
\* output_file set, and a download_video call made in such a state with the
\* artifact in the output folder returns the artifact (200), not an error.
C2_CompletedHasOutput ==
    \A t \in TaskIds :
        tasks[t].status = "completed" =>
            /\ tasks[t].output_file # None
            /\ (resp.kind = "download" /\ resp.tid = t
                   /\ OutputName(t) \in files) => resp.code = 200

\* ------------------------------------------------------------------ C3
\* C3: in every state, a task whose status is 'failed' has an error that
\* is a non-empty string.
C3_FailedHasError ==
    \A t \in TaskIds :
        tasks[t].status = "failed" => tasks[t].error \notin {None, ""}

\* ------------------------------------------------------------------ C4
\* C4: a poll can be made in any state, so two successive polls of a task
\* return non-decreasing progress exactly when no step lowers the
\* progress of a record that is and stays 'queued' or 'processing' (a
\* record created anew under the same id is a new task, not a later state
\* of the polled one).
C4_ProgressMonotonic ==
    [][\A t \in TaskIds :
          (tasks[t].status \in {"queued", "processing"}
             /\ tasks'[t].status = "processing")
          => tasks'[t].progress >= tasks[t].progress]_vars

\* ------------------------------------------------------------------ C5
\* C5: two accepted submissions never return the same task_id, and
\* upload_files never writes tasks[task_id] for an id that has a record.
C5_UniqueTaskIds ==
    /\ \A r1, r2 \in Requests :
          (r1 # r2 /\ uresp[r1].code = 200 /\ uresp[r2].code = 200)
          => uresp[r1].task_id # uresp[r2].task_id
    /\ \A r \in Requests :
          upc[r] = "l196" => tasks[utid[r]].status = "absent"

\* ------------------------------------------------------------------ C6
\* C6: a download_video call for a known task whose status is 'queued',
\* 'processing' or 'failed' returns the 400 'not yet completed' error and
\* sends no file.
C6_NoDownloadBeforeCompleted ==
    (resp.kind = "download"
       /\ tasks[resp.tid].status \in {"queued", "processing", "failed"})
    => /\ resp.code = 400
       /\ resp.error = "video not yet completed"
       /\ resp.file = None

\* a download of a task that is being processed has been refused
C6_Witness ==
    /\ resp.kind = "download"
    /\ tasks[resp.tid].status = "processing"
    /\ resp.code = 400

\* ------------------------------------------------------------------ C7
\* C7: the step in which an upload_files call returns a 400 response
\* changes no task record and starts no runner thread, and a call that
\* returned 400 has ended: it never reaches lines 196 and 208 and has no
\* runner thread in any later state.
C7_RejectedUploadCreatesNothing ==
    /\ [](\A r \in Requests :
            uresp[r].code = 400 => upc[r] = "done" /\ rpc[r] = "none")
    /\ [][\A r \in Requests :
            (uresp[r].code = 0 /\ uresp'[r].code = 400)
            => tasks' = tasks /\ rpc' = rpc]_vars

\* an upload was refused for want of a cover while the registry held a task
C7_Witness ==
    \E r \in Requests :
        /\ uresp[r].code = 400
        /\ uresp[r].error = "please upload a cover image"
        /\ \E t \in TaskIds : tasks[t].status # "absent"

\* ------------------------------------------------------------------ C8
\* C8: an upload_files call that has started its runner can return in
\* every state, whatever the runner has done; what it returns is 200 with
\* its task id; and no later step changes a response once returned.
C8_SubmissionDoesNotWait ==
    /\ [](\A r \in Requests : upc[r] = "l210" => ENABLED upload_respond(r))
    /\ [][\A r \in Requests :
            /\ (upc[r] = "l210" /\ upc'[r] # "l210")
                 => uresp'[r] = [code |-> 200, task_id |-> utid[r],
                                 error |-> None]
            /\ uresp[r].code # 0 => uresp'[r] = uresp[r]]_vars

\* the submission has responded while its task is still queued
C8_Witness ==
    \E r \in Requests :
        /\ uresp[r].code = 200
        /\ rpc[r] = "l66"
        /\ TaskOf(r).status = "queued"

\* ------------------------------------------------------------------ C9
\* C9: get_status and download_video return the 404 'task does not exist'
\* response exactly when the id has no record, and get_status for an id
\* with a record returns 200 with the record as it is.
C9_NotFoundIffNoRecord ==
    resp.kind \in {"status", "download"} =>
        /\ (resp.code = 404 /\ resp.error = "task does not exist")
             <=> tasks[resp.tid].status = "absent"
        /\ (resp.kind = "status" /\ tasks[resp.tid].status # "absent")
             => resp.code = 200 /\ resp.body = tasks[resp.tid]

\* a poll of a failed task has returned its record, error included
C9_Witness ==
    /\ resp.kind = "status"
    /\ resp.code = 200
    /\ resp.body.status = "failed"
    /\ resp.body.error = "ffmpeg: error"

\* ----------------------------------------------------------------- C10
\* C10: a download_video call for a 'completed' task whose output_file
\* names a file that is not in the output folder returns the 404 'file
\* does not exist' error; the call returns a file only when the task is
\* 'completed' and the file its output_file names is in the folder, and
\* the file returned is that one.
C10_MissingArtifact ==
    resp.kind = "download" =>
        /\ (tasks[resp.tid].status = "completed"
               /\ tasks[resp.tid].output_file # None
               /\ tasks[resp.tid].output_file \notin files)
             => /\ resp.code = 404
                /\ resp.error = "file does not exist"
                /\ resp.file = None
        /\ (resp.code = 200 \/ resp.file # None)
             => /\ tasks[resp.tid].status = "completed"
                /\ resp.file = tasks[resp.tid].output_file
                /\ resp.file \in files
                /\ resp.code = 200

\* a download of a completed task whose file was removed has returned 404
C10_Witness ==
    /\ resp.kind = "download"
    /\ tasks[resp.tid].status = "completed"
    /\ tasks[resp.tid].output_file = OutputName(resp.tid)
    /\ OutputName(resp.tid) \notin files
    /\ resp.code = 404

\* ----------------------------------------------------------------- C11
\* the moves of a record's status the data model allows
StatusMoves ==
    {<<"absent", "queued">>, <<"queued", "processing">>,
     <<"processing", "completed">>, <<"processing", "failed">>}

\* C11: every step either leaves a record's status as it is or moves it
\* along queued -> processing -> {completed | failed}; in particular a
\* 'completed' or 'failed' status never changes again.
C11_StatusOneDirectional ==
    [][\A t \in TaskIds :
          \/ tasks'[t].status = tasks[t].status
          \/ <<tasks[t].status, tasks'[t].status>> \in StatusMoves]_vars

\* ----------------------------------------------------------------- C12
\* C12: in every state, a 'completed' record has output_file set and error
\* None, and a 'failed' record has error set and output_file None.
C12_ExactlyOneResult ==
    \A t \in TaskIds :
        /\ tasks[t].status = "completed"
             => tasks[t].output_file # None /\ tasks[t].error = None
        /\ tasks[t].status = "failed"
             => tasks[t].error # None /\ tasks[t].output_file = None

\* ----------------------------------------------------------------- C13
\* C13: in every state, output_file is set only in a 'completed' record
\* and error only in a 'failed' one.
C13_ResultOnlyWhenTerminal ==
    \A t \in TaskIds :
        /\ tasks[t].output_file # None => tasks[t].status = "completed"
        /\ tasks[t].error # None => tasks[t].status = "failed"

\* ----------------------------------------------------------------- C14
\* C14: in every state, the progress of a record is in 0..100, and it is
\* 100 when the status is 'completed'.
C14_ProgressRange ==
    \A t \in TaskIds :
        /\ tasks[t].progress \in 0..ProgressDone
        /\ tasks[t].status = "completed" => tasks[t].progress = ProgressDone

\* ----------------------------------------------------------------- C15
\* C15: after an iteration of the read loop that read an out_time_ms line
\* with an integer value while the duration is known (> 0), the progress
\* of the runner's task, which that iteration wrote, is in [20,90].
C15_BandClamped ==
    (line.kind = "time" /\ duration[line.r] > 0)
    => tasks[utid[line.r]].progress \in BandFloor..BandCeil

\* ----------------------------------------------------------------- C16
\* C16: while a runner whose duration probe reported 0 is in the read
\* loop, the progress of its task is the 20 written before the subprocess
\* was started.
C16_UnknownDurationKeepsFloor ==
    \A r \in Requests :
        (rpc[r] = "l117" /\ duration[r] = 0)
        => TaskOf(r).progress = ProgressEncoding

\* ----------------------------------------------------------------- C17
\* C17: the step that ends the except clause of process_video_task leaves
\* the task 'failed' with the exception's message as error; a runner that
\* has ended never runs again; and a 'failed' status is never left.
C17_ExceptionEndsFailed ==
    [][\A r \in Requests :
          /\ (rpc[r] = "l147" /\ rpc'[r] = "done")
               => /\ tasks'[utid[r]].status = "failed"
                  /\ tasks'[utid[r]].error = exc[r]
          /\ rpc[r] = "done" => rpc'[r] = "done"
          /\ TaskOf(r).status = "failed"
               => tasks'[utid[r]].status = "failed"]_vars

\* ----------------------------------------------------------------- C18
\* a runner thread that has been started and has not ended
Active(r) == rpc[r] \notin {"none", "done"}

\* C18: in every state, two runner threads that are both alive are bound
\* to different task ids.
C18_OneRunnerPerTask ==
    \A r1, r2 \in Requests :
        (r1 # r2 /\ Active(r1) /\ Active(r2)) => utid[r1] # utid[r2]

\* ----------------------------------------------------------------- C19
\* C19: an iteration of the read loop that read a line without the
\* out_time_ms key, or one whose value is no integer, changes no task
\* record, raises nothing (the runner stays in the loop, no exception is
\* being handled), and the loop can read the next line.
C19_MalformedLinesSkipped ==
    /\ [](line.kind \in {"other", "malformed"}
            => /\ rpc[line.r] = "l117"
               /\ exc[line.r] = None
               /\ proc[line.r].state = "running"
                    => ENABLED runner_read_line(line.r))
    /\ [][line'.kind \in {"other", "malformed"}
            => tasks' = tasks /\ rpc' = rpc /\ exc' = exc]_vars

\* a line whose value is no integer was read by a runner that knows the
\* duration and had moved the progress into the band before
C19_Witness ==
    /\ line.kind = "malformed"
    /\ duration[line.r] > 0
    /\ tasks[utid[line.r]].progress = 43
    /\ tasks[utid[line.r]].status = "processing"

\* ----------------------------------------------------------------- C20
\* C20: the step at line 196 writes the record ('queued', 0, None, None)
\* while the call has neither started its runner nor returned; hence a
\* call that is past line 196, a runner that was started and a task_id
\* that was returned all have a record, and a get_status call for a
\* returned task_id does not return 404.
C20_RecordBeforeRunnerAndResponse ==
    /\ [](\A r \in Requests :
            /\ (upc[r] \in {"l208", "l210"} \/ rpc[r] # "none"
                   \/ uresp[r].code = 200)
                 => TaskOf(r).status # "absent"
            /\ (uresp[r].code = 200 /\ resp.kind = "status"
                   /\ resp.tid = uresp[r].task_id)
                 => resp.code = 200)
    /\ [][\A r \in Requests :
            (upc[r] = "l196" /\ upc'[r] # "l196")
            => /\ tasks'[utid[r]] = NewTask
               /\ rpc[r] = "none" /\ rpc'[r] = "none"
               /\ uresp'[r].code = 0]_vars

\* a poll for a returned task_id was answered with the record before the
\* runner's first write
C20_Witness ==
    \E r \in Requests :
        /\ uresp[r].code = 200
        /\ rpc[r] = "l66"
        /\ resp.kind = "status"
        /\ resp.tid = uresp[r].task_id
        /\ resp.code = 200
        /\ resp.body = NewTask

====
